---- MODULE Spec2Model ----
(***************************************************************************)
(* A model of the real-time stock dashboard: the server (server.js: the    *)
(* bounded per-symbol series, the tick generator, the WebSocket hub) and   *)
(* the browser client (public/app.js: the moving average, the render       *)
(* window, the reconnect loop).                                            *)
(*                                                                         *)
(* Units.  Prices are integers in cents (the code rounds every price to 2  *)
(* decimals), moving-average values are integers in 1/10000 (the code      *)
(* rounds them to 4 decimals), timestamps are milliseconds.  Symbols are   *)
(* sequences of characters so that toUpperCase is computed, not assumed.   *)
(*                                                                         *)
(* Scaling.  The sizes of the code (HISTORY_POINTS = 120, MAX_LENGTH =     *)
(* 500, maxPoints = 120, five symbols) are scaled down to 2, 4, 3 and two  *)
(* symbols.  The window holds three points so that the periods 2 and 3    *)
(* average differently; the seeded history stays at two samples, which     *)
(* keeps the unrounded seeding arithmetic within 32 bits.  The client on   *)
(* its own is sent histories of at least maxPoints samples, as in the code *)
(* where HISTORY_POINTS = maxPoints.                                       *)
(***************************************************************************)
EXTENDS Integers, Sequences, FiniteSets, TLC

VARIABLES
  \* ---- server.js
  state,        \* symbol -> sequence of [t, price]; << >> before initHistory
  clock,        \* what Date.now() returns
  clients,      \* wss.clients, in insertion order
  readyState,   \* connection -> "OPEN" | "CLOSING" | "CLOSED"
  sendLog,      \* the ws.send calls of the last handler: [to, msg, threw]
  running,      \* FALSE once an exception escaped a handler (process died)
  lastOp,       \* the handler that ran last, with its input
  nTicks,       \* number of tick() firings so far
  appended,     \* history variable: symbol -> every sample ever pushed
  \* ---- public/app.js
  wsState,      \* the client's ws.readyState, "NONE" before connectWS
  timerSet,     \* a setTimeout(connectWS, 1000) is pending
  paused,
  selectedSymbol,
  symbolList,   \* the symbols shown in the sidebar
  smaPeriodValue, \* smaPeriodInput.value
  labels,       \* chart.data.labels
  priceData,    \* chart.data.datasets[0].data
  smaData,      \* chart.data.datasets[1].data
  currentPrice, \* currentPriceEl.innerText, in cents; NoText before any
  trend,        \* trendEl.innerText
  outbox,       \* the messages the client sent with ws.send
  fetches,      \* REST fallback requests in flight (symbols)
  clientOp,     \* the client handler that ran last
  full,         \* history variable: last rendered history ++ accepted ticks
  nAccepted,    \* history variable: ticks accepted by handleTick so far
  \* ---- computeSMA on its own
  smaIn,        \* [values, period] handed to computeSMA
  smaOut,       \* what computeSMA returned
  \* ---- the price step on its own
  walk,         \* [prev, price, n]: a price, the one before it, steps taken
  \* ---- one WebSocket connection between the server and the client
  wireDown,     \* messages sent by the server, not yet handled by the client
  wireUp,       \* messages sent by the client, not yet handled by the server
  \* ---- history variables of the render window
  winSyms,      \* the symbol each point of the window was sent for
  awaiting      \* no history has arrived yet for the last selection

serverVars == <<state, clock, clients, readyState, sendLog, running, lastOp,
                nTicks, appended>>
clientVars == <<wsState, timerSet, paused, selectedSymbol, symbolList,
                smaPeriodValue, labels, priceData, smaData, currentPrice,
                trend, outbox, fetches, clientOp, full, nAccepted>>
smaVars == <<smaIn, smaOut>>
wireVars == <<wireDown, wireUp>>
windowVars == <<winSyms, awaiting>>
auxVars == <<smaVars, walk, wireVars, windowVars>>
vars == <<serverVars, clientVars, auxVars>>

(***************************************************************************)
(* Bounds of the model.                                                    *)
(***************************************************************************)
MaxTicks == 3          \* tick() firings explored
MaxSeedDrift == 1      \* ms the clock may advance while initHistory runs
MaxClientTicks == 4    \* tick messages the client accepts
MaxLen == 4            \* longest price sequence handed to computeSMA alone
MaxPeriod == 4         \* largest period handed to computeSMA alone
MaxHistory == 4        \* longest history the client is sent
MaxFetches == 1        \* REST fallback requests in flight at once
MaxWalk == 3           \* price steps taken on their own
MaxWire == 2           \* messages in flight when the client sends one more

(***************************************************************************)
(* server.js: configuration.                                               *)
(***************************************************************************)
AAPL == <<"A", "A", "P", "L">>
MSFT == <<"M", "S", "F", "T">>
symbols == <<AAPL, MSFT>>
Universe == {symbols[i] : i \in DOMAIN symbols}
seedPrice == [sym \in Universe |-> IF sym = AAPL THEN 150 ELSE 300]
\* 120 and 500 in the code, scaled (see the head of the module).
HISTORY_POINTS == 2
MAX_LENGTH == 4

Conns == {"c1", "c2", "c3"}

\* Math.random() returns k/4 for a k of RandomDraws (0 <= k/4 < 1).
RandomDraws == {0, 3}
\* Wall-clock milliseconds between two firings of the 1000 ms interval timer.
ClockSteps == {1000, 1003}
StartTime == 50 * 1000

Min(a, b) == IF a <= b THEN a ELSE b
Max(a, b) == IF a >= b THEN a ELSE b

\* n/d rounded to the nearest integer, halves up (Number.prototype.toFixed
\* on a non-negative value), n >= 0, d > 0.
RoundDiv(n, d) == (n \div d) + (IF 2 * (n % d) >= d THEN 1 ELSE 0)

\* The last n elements of s (Array.prototype.slice(start)).
LastN(s, n) == SubSeq(s, Len(s) - Min(n, Len(s)) + 1, Len(s))

(***************************************************************************)
(* server.js: initHistory (lines 26-38).                                   *)
(* With Math.random() = k/4 one step multiplies p by                       *)
(* 1 + (k/4 - 0.5) * 0.002 = (1998 + k) / 2000, so after j steps p is      *)
(* WalkNum / 2000^j dollars, kept unrounded from one step to the next as   *)
(* in the code; only the pushed price is rounded to cents.                 *)
(***************************************************************************)
RECURSIVE Pow(_, _)
Pow(b, e) == IF e = 0 THEN 1 ELSE b * Pow(b, e - 1)

RECURSIVE WalkNum(_, _, _)
WalkNum(seed, ks, j) ==
  IF j = 0 THEN seed
  ELSE Max(Pow(2000, j) \div 100, WalkNum(seed, ks, j - 1) * (1998 + ks[j]))

\* Number(p.toFixed(2)) after the j-th step, in cents.
SeedPrice(seed, ks, j) == RoundDiv(WalkNum(seed, ks, j), Pow(2000, j) \div 100)

\* (SeedSeriesForward is the faulty variant that adds the offset i * 1000
\* instead of subtracting it.)
SeedSeriesForward(n, ks, reads) ==
  [j \in 1..HISTORY_POINTS |->
     [t |-> reads[(n - 1) * HISTORY_POINTS + j] + (HISTORY_POINTS - j) * 1000,
      price |-> SeedPrice(seedPrice[symbols[n]], ks, j)]]

\* The series initHistory builds for the n-th symbol: ks are its draws and
\* reads[m] is what the m-th call of Date.now() of the whole run returned.
SeedSeries(n, ks, reads) ==
  [j \in 1..HISTORY_POINTS |->
     [t |-> reads[(n - 1) * HISTORY_POINTS + j] - (HISTORY_POINTS - j) * 1000,
      price |-> SeedPrice(seedPrice[symbols[n]], ks, j)]]

SymbolIndex(sym) == CHOOSE n \in DOMAIN symbols : symbols[n] = sym

\* Every way the clock can read during the Len(symbols) * HISTORY_POINTS
\* calls of Date.now(): it does not go back and gains at most drift ms.
ClockReads(drift) ==
  LET N == Len(symbols) * HISTORY_POINTS
  IN {r \in [1..N -> clock..(clock + drift)] :
        \A m \in 1..(N - 1) : r[m] <= r[m + 1]}

InitHistoryWith(draws, drift) ==
  /\ running
  /\ DOMAIN state = {}
  /\ \E ks \in [Universe -> [1..HISTORY_POINTS -> draws]] :
     \E reads \in ClockReads(drift) :
       /\ state' = [sym \in Universe |->
                      SeedSeries(SymbolIndex(sym), ks[sym], reads)]
       /\ appended' = state'
       /\ clock' = reads[Len(symbols) * HISTORY_POINTS]
  /\ lastOp' = [op |-> "initHistory", conn |-> "-"]
  /\ sendLog' = << >>
  /\ UNCHANGED <<clients, readyState, running, nTicks>>
  /\ UNCHANGED <<clientVars, auxVars>>

(***************************************************************************)
(* server.js: tick (lines 41-66).                                          *)
(***************************************************************************)
\* Lines 44-48: with Math.random() = k/4 the change is (k - 2) * last / 200.
\* (NextPriceWide is the faulty variant with twice the volatility.)
NextPriceWide(last, k) == RoundDiv(Max(200, last * (196 + 2 * k)), 200)

NextPrice(last, k) == RoundDiv(Max(200, last * (198 + k)), 200)

\* Lines 48-49: push, then one shift when the series got too long.
\* (PushBoundedEarly is the faulty variant that shifts one sample too soon.)
PushBoundedEarly(series, sample) ==
  LET pushed == Append(series, sample)
  IN IF Len(pushed) >= MAX_LENGTH THEN Tail(pushed) ELSE pushed

PushBounded(series, sample) ==
  LET pushed == Append(series, sample)
  IN IF Len(pushed) > MAX_LENGTH THEN Tail(pushed) ELSE pushed

\* Lines 53-59: the tick message built from the series after the pushes.
\* (TickMessagePrevious is the faulty variant that reports the price each
\* series ended with before the push.)
TickMessagePrevious(st, t) ==
  [type |-> "tick",
   payload |-> [n \in DOMAIN symbols |->
                  [symbol |-> symbols[n], t |-> t,
                   price |-> st[symbols[n]][Len(st[symbols[n]]) - 1].price]]]

TickMessage(st, t) ==
  [type |-> "tick",
   payload |-> [n \in DOMAIN symbols |->
                  [symbol |-> symbols[n], t |-> t,
                   price |-> st[symbols[n]][Len(st[symbols[n]])].price]]]

\* Lines 61-65: the fan-out.  A send throws for the connections of throwers;
\* the catch swallows it and the loop goes on.  alive tells whether the
\* loop ended without an exception escaping.
\* (BroadcastNoCatch is the faulty variant without the try/catch: the first
\* throw ends the loop and escapes the timer callback.)
BroadcastNoCatch(message, throwers) ==
  LET open == SelectSeq(clients, LAMBDA c : readyState[c] = "OPEN")
      firstThrow == IF \E i \in DOMAIN open : open[i] \in throwers
                    THEN CHOOSE i \in DOMAIN open :
                           /\ open[i] \in throwers
                           /\ \A j \in 1..(i - 1) : open[j] \notin throwers
                    ELSE Len(open)
  IN [log |-> [i \in 1..firstThrow |->
                 [to |-> open[i], msg |-> message,
                  threw |-> open[i] \in throwers]],
      alive |-> \A i \in DOMAIN open : open[i] \notin throwers]

Broadcast(message, throwers) ==
  LET open == SelectSeq(clients, LAMBDA c : readyState[c] = "OPEN")
  IN [log |-> [i \in DOMAIN open |->
                 [to |-> open[i], msg |-> message,
                  threw |-> open[i] \in throwers]],
      alive |-> TRUE]

TickWithBody(draws, steps) ==
  /\ running
  /\ DOMAIN state # {}
  /\ nTicks < MaxTicks
  /\ \E step \in steps :
     \E ks \in [Universe -> draws] :
     \E throwers \in SUBSET {c \in Conns : readyState[c] = "OPEN"} :
       LET t == clock + step
           sample(sym) ==
             [t |-> t,
              price |-> NextPrice(state[sym][Len(state[sym])].price, ks[sym])]
           sent == Broadcast(TickMessage(state', t), throwers)
       IN /\ clock' = t
          /\ state' = [sym \in Universe |-> PushBounded(state[sym], sample(sym))]
          /\ appended' = [sym \in Universe |-> Append(appended[sym], sample(sym))]
          /\ sendLog' = sent.log
          /\ running' = sent.alive
  /\ nTicks' = nTicks + 1
  /\ lastOp' = [op |-> "tick", conn |-> "-", msg |-> TickMessage(state', clock')]
  /\ UNCHANGED <<clients, readyState>>
TickWith(draws, steps) ==
  TickWithBody(draws, steps) /\ UNCHANGED <<clientVars, auxVars>>

(***************************************************************************)
(* server.js: the WebSocket hub (lines 76-97).                             *)
(***************************************************************************)
\* String.prototype.toUpperCase, character by character.
UpperChar(ch) ==
  CASE ch = "a" -> "A" [] ch = "p" -> "P" [] ch = "l" -> "L"
    [] ch = "m" -> "M" [] ch = "s" -> "S" [] ch = "f" -> "F"
    [] ch = "t" -> "T" [] ch = "z" -> "Z"
    [] OTHER -> ch
toUpperCase(str) == [i \in DOMAIN str |-> UpperChar(str[i])]

\* What a client may put on the wire.  json tells what JSON.parse makes of
\* the text: "invalid" (it throws), "null", or an object with the given type
\* and symbol; a symbol is a string (its characters) or some other value.
StringValue(chars) == [typeof |-> "string", chars |-> chars]
NotAString == {[typeof |-> "undefined", chars |-> << >>],
               [typeof |-> "number", chars |-> << >>]}
SymbolInputs == {AAPL, MSFT, <<"a", "a", "p", "l">>, <<"M", "s", "f", "t">>,
                 <<"Z", "Z", "Z", "Z">>, <<"a", "a", "p">>, << >>}
Inbound ==
  {[json |-> j, type |-> "-", symbol |-> StringValue(<< >>)] :
     j \in {"invalid", "null"}}
  \cup {[json |-> "object", type |-> ty, symbol |-> sy] :
          ty \in {"subscribe", "ping", "-"},
          sy \in {StringValue(x) : x \in SymbolInputs} \cup NotAString}

\* (HistoryMessageStale is the faulty variant that leaves out the newest
\* sample of the series.)
HistoryMessageStale(sym) ==
  [type |-> "history", symbol |-> sym,
   history |-> SubSeq(state[sym], 1, Len(state[sym]) - 1)]

HistoryMessage(sym) == [type |-> "history", symbol |-> sym, history |-> state[sym]]
ErrorMessage == [type |-> "error", message |-> "Unknown symbol"]
SymbolsMessage == [type |-> "symbols", payload |-> symbols]

\* Lines 81-95: the message handler for msg on ws: its ws.send calls and
\* whether it ended without an exception escaping.  JSON.parse throws on
\* invalid text and data.type throws on null; both are caught at line 93,
\* as is a send that throws.
Reply(ws, message, threw) ==
  [log |-> <<[to |-> ws, msg |-> message, threw |-> threw]>>, alive |-> TRUE]
NoReply == [log |-> << >>, alive |-> TRUE]

\* Faulty variants: without the toUpperCase of line 84, without the error
\* reply of line 89, without the try/catch of lines 81 and 93.
HandleMessageNoUpper(ws, msg, threw) ==
  IF msg.json # "object" THEN NoReply
  ELSE IF msg.type = "subscribe" /\ msg.symbol.typeof = "string"
  THEN LET sym == msg.symbol.chars
       IN IF sym \in DOMAIN state
          THEN Reply(ws, HistoryMessage(sym), threw)
          ELSE Reply(ws, ErrorMessage, threw)
  ELSE NoReply

HandleMessageNoError(ws, msg, threw) ==
  IF msg.json # "object" THEN NoReply
  ELSE IF msg.type = "subscribe" /\ msg.symbol.typeof = "string"
  THEN LET sym == toUpperCase(msg.symbol.chars)
       IN IF sym \in DOMAIN state
          THEN Reply(ws, HistoryMessage(sym), threw)
          ELSE NoReply
  ELSE NoReply

HandleMessageNoCatch(ws, msg, threw) ==
  IF msg.json # "object" THEN [log |-> << >>, alive |-> FALSE]
  ELSE IF msg.type = "subscribe" /\ msg.symbol.typeof = "string"
  THEN LET sym == toUpperCase(msg.symbol.chars)
       IN IF sym \in DOMAIN state
          THEN Reply(ws, HistoryMessage(sym), threw)
          ELSE Reply(ws, ErrorMessage, threw)
  ELSE NoReply

HandleMessage(ws, msg, threw) ==
  IF msg.json # "object" THEN NoReply
  ELSE IF msg.type = "subscribe" /\ msg.symbol.typeof = "string"
  THEN LET sym == toUpperCase(msg.symbol.chars)
       IN IF sym \in DOMAIN state
          THEN Reply(ws, HistoryMessage(sym), threw)
          ELSE Reply(ws, ErrorMessage, threw)
  ELSE NoReply

\* Lines 76-78: a client connects and is sent the symbol list.
ConnectionBody(ws) ==
  /\ running
  /\ DOMAIN state # {}
  /\ ws \notin {clients[i] : i \in DOMAIN clients}
  /\ clients' = Append(clients, ws)
  /\ readyState' = [readyState EXCEPT ![ws] = "OPEN"]
  /\ sendLog' = <<[to |-> ws, msg |-> SymbolsMessage, threw |-> FALSE]>>
  /\ lastOp' = [op |-> "connection", conn |-> ws]
  /\ UNCHANGED <<state, clock, running, nTicks, appended>>
Connection(ws) ==
  ConnectionBody(ws) /\ UNCHANGED <<clientVars, auxVars>>

\* Lines 80-96: a message arrives on an open connection.
MessageBody(ws, msg, threw) ==
  /\ running
  /\ readyState[ws] = "OPEN"
  /\ sendLog' = HandleMessage(ws, msg, threw).log
  /\ running' = HandleMessage(ws, msg, threw).alive
  /\ (threw => sendLog' # << >>)
  /\ lastOp' = [op |-> "message", conn |-> ws, msg |-> msg]
  /\ UNCHANGED <<state, clock, clients, readyState, nTicks, appended>>
Message(ws) ==
  /\ \E msg \in Inbound : \E threw \in BOOLEAN : MessageBody(ws, msg, threw)
  /\ UNCHANGED <<clientVars, auxVars>>

\* The transport of a connection starts closing (by the peer or by an
\* error): readyState leaves OPEN while the socket is still in wss.clients.
CloseStart(ws) ==
  /\ running
  /\ readyState[ws] = "OPEN"
  /\ readyState' = [readyState EXCEPT ![ws] = "CLOSING"]
  /\ sendLog' = << >>
  /\ lastOp' = [op |-> "closeStart", conn |-> ws]
  /\ UNCHANGED <<state, clock, clients, running, nTicks, appended>>
  /\ UNCHANGED <<clientVars, auxVars>>

\* The close completes: the socket is CLOSED and leaves wss.clients.
CloseEnd(ws) ==
  /\ running
  /\ readyState[ws] = "CLOSING"
  /\ readyState' = [readyState EXCEPT ![ws] = "CLOSED"]
  /\ clients' = SelectSeq(clients, LAMBDA c : c # ws)
  /\ sendLog' = << >>
  /\ lastOp' = [op |-> "closeEnd", conn |-> ws]
  /\ UNCHANGED <<state, clock, running, nTicks, appended>>
  /\ UNCHANGED <<clientVars, auxVars>>

(***************************************************************************)
(* public/app.js: computeSMA (lines 26-41).                                *)
(* values are prices in cents, the result is in 1/10000: sum / n dollars   *)
(* rounded to 4 decimals is 100 * sum / n rounded to an integer.           *)
(***************************************************************************)
\* parseInt gave NaN: every comparison with it is false.
NaN == -1
\* 120 in the code, scaled (see the head of the module).
maxPoints == 3

\* `sum` after the iteration of (0-based) index i.
RECURSIVE RunningSum(_, _, _)
RunningSum(values, period, i) ==
  IF i < 0 THEN 0
  ELSE RunningSum(values, period, i - 1) + values[i + 1]
       - (IF period # NaN /\ i >= period THEN values[i - period + 1] ELSE 0)

\* (computeSMACumulative is the faulty variant that never drops the oldest
\* price of the window.)
computeSMACumulative(values, period) ==
  [k \in 1..Len(values) |->
     RoundDiv(100 * RunningSum(values, NaN, k - 1), k)]

computeSMA(values, period) ==
  [k \in 1..Len(values) |->
     LET i == k - 1
         sum == RunningSum(values, period, i)
     IN IF period # NaN /\ i >= period
        THEN RoundDiv(100 * sum, period)
        ELSE RoundDiv(100 * sum, i + 1)]

(***************************************************************************)
(* public/app.js: the chart and its handlers.                              *)
(***************************************************************************)
\* fmtTime (lines 20-23): the time of day, to the second.
fmtTime(ts) == (ts \div 1000) % 86400

\* parseInt(str, 10) on the texts the period input is given.
ParseInt(str) ==
  CASE str = "1" -> 1 [] str = "2" -> 2 [] str = "3" -> 3 [] str = "4" -> 4
    [] str = "20" -> 20 [] OTHER -> NaN

\* Lines 87, 125, 223: Math.max(2, parseInt(value || '20', 10)).
PeriodOf(value) ==
  LET n == ParseInt(IF value = "" THEN "20" ELSE value)
  IN IF n = NaN THEN NaN ELSE Max(2, n)

\* A data point of the chart is a bare number or an object {x, y}.
Num(v) == [shape |-> "number", value |-> v]
Obj(x, y) == [shape |-> "object", x |-> x, y |-> y]
\* typeof x === 'object' ? x.y : x
Y(d) == IF d.shape = "object" THEN d.y ELSE d.value
Prices(data) == [i \in DOMAIN data |-> Y(data[i])]

\* s without its first n elements (n calls of shift()).
DropN(s, n) == SubSeq(s, Min(n, Len(s)) + 1, Len(s))

\* The trend shown for price `last` (cents) against lastSMA (1/10000);
\* `s[s.length - 1] || last`: a missing or zero value is replaced by last.
\* (TrendOfStrict is the faulty variant that compares with > .)
TrendOfStrict(last, sma) ==
  LET lastSMA == IF Len(sma) = 0 \/ sma[Len(sma)] = 0
                 THEN 100 * last ELSE sma[Len(sma)]
  IN IF 100 * last > lastSMA THEN "UP" ELSE "DOWN"

TrendOf(last, sma) ==
  LET lastSMA == IF Len(sma) = 0 \/ sma[Len(sma)] = 0
                 THEN 100 * last ELSE sma[Len(sma)]
  IN IF 100 * last >= lastSMA THEN "UP" ELSE "DOWN"

NoText == -1

\* renderData (lines 84-110): what it assigns, as a record.
\* (renderDataNoTrim is the faulty variant without the slice of lines 91-94.)
renderDataNoTrim(history) ==
  LET l == [i \in DOMAIN history |-> fmtTime(history[i].t)]
      p == [i \in DOMAIN history |-> history[i].price]
      s == computeSMA(p, PeriodOf(smaPeriodValue))
  IN [labels |-> l,
      priceData |-> [i \in DOMAIN p |-> Obj(l[i], p[i])],
      smaData |-> [i \in DOMAIN s |-> Obj(l[i], s[i])],
      currentPrice |-> IF Len(p) > 0 THEN p[Len(p)] ELSE currentPrice,
      trend |-> IF Len(p) > 0 THEN TrendOf(p[Len(p)], s) ELSE trend]

renderData(history) ==
  LET allLabels == [i \in DOMAIN history |-> fmtTime(history[i].t)]
      prices == [i \in DOMAIN history |-> history[i].price]
      sma == computeSMA(prices, PeriodOf(smaPeriodValue))
      start == Max(0, Len(prices) - maxPoints)
      l == DropN(allLabels, start)
      p == DropN(prices, start)
      s == DropN(sma, start)
  IN [labels |-> l,
      priceData |-> [i \in DOMAIN p |-> Obj(l[i], p[i])],
      smaData |-> [i \in DOMAIN s |-> Obj(l[i], s[i])],
      currentPrice |-> IF Len(p) > 0 THEN p[Len(p)] ELSE currentPrice,
      trend |-> IF Len(p) > 0 THEN TrendOf(p[Len(p)], s) ELSE trend]

\* payload.find(q => q.symbol === selectedSymbol): the index, 0 when none.
\* (FindQuoteFirst is the faulty variant that takes the first quote.)
FindQuoteFirst(payload) == IF Len(payload) > 0 THEN 1 ELSE 0

FindQuote(payload) ==
  IF \E i \in DOMAIN payload : payload[i].symbol = selectedSymbol
  THEN CHOOSE i \in DOMAIN payload :
         /\ payload[i].symbol = selectedSymbol
         /\ \A j \in 1..(i - 1) : payload[j].symbol # selectedSymbol
  ELSE 0

\* handleTick (lines 113-143) for a payload that holds a quote.
\* (handleTickNoTrim is the faulty variant without the loop of lines 130-134.)
handleTickNoTrim(quote) ==
  LET pushedPrices == Append(priceData, Num(quote.price))
      sma == computeSMA(Prices(pushedPrices), PeriodOf(smaPeriodValue))
  IN [labels |-> Append(labels, fmtTime(quote.t)),
      priceData |-> pushedPrices,
      smaData |-> [i \in DOMAIN sma |-> Num(sma[i])],
      currentPrice |-> quote.price,
      trend |-> TrendOf(quote.price, sma)]

\* (handleTickSmaKept is the faulty variant whose loop of lines 130-134
\* shifts the labels and the prices but not the moving average.)
handleTickSmaKept(quote) ==
  LET pushedLabels == Append(labels, fmtTime(quote.t))
      pushedPrices == Append(priceData, Num(quote.price))
      sma == computeSMA(Prices(pushedPrices), PeriodOf(smaPeriodValue))
      shifts == Max(0, Len(pushedLabels) - maxPoints)
  IN [labels |-> DropN(pushedLabels, shifts),
      priceData |-> DropN(pushedPrices, shifts),
      smaData |-> [i \in DOMAIN sma |-> Num(sma[i])],
      currentPrice |-> quote.price,
      trend |-> TrendOf(quote.price, sma)]

handleTick(quote) ==
  LET pushedLabels == Append(labels, fmtTime(quote.t))
      pushedPrices == Append(priceData, Num(quote.price))
      sma == computeSMA(Prices(pushedPrices), PeriodOf(smaPeriodValue))
      shifts == Max(0, Len(pushedLabels) - maxPoints)
  IN [labels |-> DropN(pushedLabels, shifts),
      priceData |-> DropN(pushedPrices, shifts),
      smaData |-> DropN([i \in DOMAIN sma |-> Num(sma[i])], shifts),
      currentPrice |-> quote.price,
      trend |-> TrendOf(quote.price, sma)]

\* What the model's server sends this client: histories of maxPoints to
\* MaxHistory samples (a series never holds fewer than HISTORY_POINTS, which
\* is maxPoints in the code), in the order of their timestamps as the server
\* keeps its series, and tick batches, over two samples.
Samples == {[t |-> 61000, price |-> 100], [t |-> 62000, price |-> 101]}
Histories ==
  {h \in UNION {[1..n -> Samples] : n \in maxPoints..MaxHistory} :
     \A i \in 1..(Len(h) - 1) : h[i].t <= h[i + 1].t}
QuoteOf(sym, q) == [symbol |-> sym, t |-> q.t, price |-> q.price]
\* A full batch gives every symbol its own sample; a batch may also hold the
\* quote of one symbol only.
Payloads ==
  {[n \in DOMAIN symbols |->
      QuoteOf(symbols[n], IF n = 1 THEN q ELSE CHOOSE o \in Samples : o # q)] :
     q \in Samples}
  \cup {<<QuoteOf(sym, q)>> : sym \in Universe, q \in Samples}
ServerMessages ==
  {SymbolsMessage, ErrorMessage, [type |-> "(unparseable)"]}
  \cup {[type |-> "history", symbol |-> sym, history |-> h] :
          sym \in Universe, h \in Histories}
  \cup {[type |-> "tick", payload |-> pl] : pl \in Payloads}
PeriodInputs == {"", "1", "3"}

SubscribeMessage(sym) == [type |-> "subscribe", symbol |-> sym]

\* The chart and the meta line take the values of the record r.
Show(r) ==
  /\ labels' = r.labels
  /\ priceData' = r.priceData
  /\ smaData' = r.smaData
  /\ currentPrice' = r.currentPrice
  /\ trend' = r.trend
chartVars == <<labels, priceData, smaData, currentPrice, trend>>

\* The handler that ran: its name, for a tick whether the batch held a
\* quote of the selected symbol (and that quote), and whether the handler
\* got to renderData or to the body of handleTick.
NoQuote == [symbol |-> << >>, t |-> 0, price |-> 0]
SelectedQuote(payload) ==
  IF \E j \in DOMAIN payload : payload[j].symbol = selectedSymbol
  THEN CHOOSE q \in {payload[j] : j \in DOMAIN payload} : q.symbol = selectedSymbol
  ELSE NoQuote
TickOp(payload, ran) ==
  [op |-> "tick", hit |-> SelectedQuote(payload) # NoQuote,
   quote |-> SelectedQuote(payload), ran |-> ran]
ClientOp(op, hit, ran) == [op |-> op, hit |-> hit, quote |-> NoQuote, ran |-> ran]

\* ws.onmessage (lines 154-170).
OnMessageBody(msg) ==
  /\ wsState = "OPEN"
  /\ msg.type = "tick" => nAccepted < MaxClientTicks
  /\ IF paused
     THEN /\ clientOp' = IF msg.type = "tick" THEN TickOp(msg.payload, FALSE)
                          ELSE ClientOp(msg.type, FALSE, FALSE)
          /\ outbox' = << >>
          /\ UNCHANGED <<chartVars, selectedSymbol, symbolList, full, nAccepted>>
     ELSE CASE msg.type = "symbols" ->
            \* populateSymbols (lines 178-190): the first symbol is selected
            \* when none is, which subscribes (lines 198-203).
            /\ symbolList' = msg.payload
            /\ IF selectedSymbol = << >> /\ Len(msg.payload) > 0
               THEN /\ selectedSymbol' = msg.payload[1]
                    /\ outbox' = <<SubscribeMessage(msg.payload[1])>>
               ELSE /\ outbox' = << >>
                    /\ UNCHANGED selectedSymbol
            /\ clientOp' = ClientOp("symbols", FALSE, TRUE)
            /\ UNCHANGED <<chartVars, full, nAccepted>>
          [] msg.type = "history" ->
            /\ IF msg.symbol = selectedSymbol
               THEN /\ Show(renderData(msg.history))
                    /\ full' = msg.history
               ELSE UNCHANGED <<chartVars, full>>
            /\ clientOp' = ClientOp("history", FALSE, msg.symbol = selectedSymbol)
            /\ outbox' = << >>
            /\ UNCHANGED <<selectedSymbol, symbolList, nAccepted>>
          [] msg.type = "tick" ->
            LET i == FindQuote(msg.payload)
            IN /\ IF i # 0
                  THEN /\ Show(handleTick(msg.payload[i]))
                       /\ full' = Append(full, [t |-> msg.payload[i].t,
                                                price |-> msg.payload[i].price])
                       /\ nAccepted' = nAccepted + 1
                  ELSE UNCHANGED <<chartVars, full, nAccepted>>
               /\ clientOp' = TickOp(msg.payload, i # 0)
               /\ outbox' = << >>
               /\ UNCHANGED <<selectedSymbol, symbolList>>
          [] OTHER ->
            /\ clientOp' = ClientOp(msg.type, FALSE, FALSE)
            /\ outbox' = << >>
            /\ UNCHANGED <<chartVars, selectedSymbol, symbolList, full, nAccepted>>
  /\ UNCHANGED <<wsState, timerSet, paused, smaPeriodValue, fetches>>
OnMessage(msg) ==
  OnMessageBody(msg) /\ UNCHANGED <<serverVars, auxVars>>

\* selectSymbol (lines 193-210), from a click on a list entry.  ws.send
\* throws while the socket is CONNECTING, which starts the REST fallback;
\* on a closing or closed socket it sends nothing and does not throw.
SelectSymbolBody(sym) ==
  /\ \E i \in DOMAIN symbolList : symbolList[i] = sym
  /\ selectedSymbol' = sym
  /\ CASE wsState = "CONNECTING" ->
            /\ Cardinality(fetches \cup {sym}) <= MaxFetches
            /\ fetches' = fetches \cup {sym}
            /\ outbox' = << >>
       [] wsState = "OPEN" ->
            /\ outbox' = <<SubscribeMessage(sym)>>
            /\ UNCHANGED fetches
       [] OTHER ->
            /\ outbox' = << >>
            /\ UNCHANGED fetches
  /\ clientOp' = ClientOp("select", FALSE, TRUE)
  /\ UNCHANGED <<chartVars, wsState, timerSet, paused, symbolList,
                 smaPeriodValue, full, nAccepted>>
SelectSymbol(sym) ==
  SelectSymbolBody(sym) /\ UNCHANGED <<serverVars, auxVars>>

\* Lines 206-208: the REST fallback answers and its history is rendered.
FetchResponseBody(sym) ==
  /\ sym \in fetches
  /\ \E h \in Histories :
       /\ Show(renderData(h))
       /\ full' = h
  /\ fetches' = fetches \ {sym}
  /\ outbox' = << >>
  /\ clientOp' = ClientOp("fetch", FALSE, TRUE)
  /\ UNCHANGED <<wsState, timerSet, paused, selectedSymbol, symbolList,
                 smaPeriodValue, nAccepted>>
FetchResponse(sym) ==
  FetchResponseBody(sym) /\ UNCHANGED <<serverVars, auxVars>>

\* The REST fallback fails (the promise rejects): nothing is rendered.
FetchFail(sym) ==
  /\ sym \in fetches
  /\ fetches' = fetches \ {sym}
  /\ outbox' = << >>
  /\ clientOp' = ClientOp("fetchFail", FALSE, FALSE)
  /\ UNCHANGED <<chartVars, wsState, timerSet, paused, selectedSymbol,
                 symbolList, smaPeriodValue, full, nAccepted>>
  /\ UNCHANGED <<serverVars, auxVars>>

\* pauseBtn.onclick (lines 213-216).
PauseClick ==
  /\ paused' = ~paused
  /\ outbox' = << >>
  /\ clientOp' = ClientOp("pause", FALSE, TRUE)
  /\ UNCHANGED <<chartVars, wsState, timerSet, selectedSymbol, symbolList,
                 smaPeriodValue, fetches, full, nAccepted>>
  /\ UNCHANGED <<serverVars, auxVars>>

\* smaPeriodInput.onchange (lines 219-227), the input now holding value.
\* (PeriodChangeOldPeriod is the faulty variant that recomputes with the
\* period the input held before.)
PeriodChangeOldPeriod(value) ==
  /\ value # smaPeriodValue
  /\ smaPeriodValue' = value
  /\ LET sma == computeSMA(Prices(priceData), PeriodOf(smaPeriodValue))
     IN smaData' = [i \in DOMAIN sma |-> Num(sma[i])]
  /\ outbox' = << >>
  /\ clientOp' = ClientOp("period", FALSE, TRUE)
  /\ UNCHANGED <<labels, priceData, currentPrice, trend, wsState, timerSet,
                 paused, selectedSymbol, symbolList, fetches, full, nAccepted>>
  /\ UNCHANGED <<serverVars, auxVars>>

PeriodChange(value) ==
  /\ value # smaPeriodValue
  /\ smaPeriodValue' = value
  /\ LET sma == computeSMA(Prices(priceData), PeriodOf(value))
     IN smaData' = [i \in DOMAIN sma |-> Num(sma[i])]
  /\ outbox' = << >>
  /\ clientOp' = ClientOp("period", FALSE, TRUE)
  /\ UNCHANGED <<labels, priceData, currentPrice, trend, wsState, timerSet,
                 paused, selectedSymbol, symbolList, fetches, full, nAccepted>>
  /\ UNCHANGED <<serverVars, auxVars>>

\* ws.onopen (lines 151-153).
WsOpen ==
  /\ wsState = "CONNECTING"
  /\ wsState' = "OPEN"
  /\ outbox' = << >>
  /\ clientOp' = ClientOp("open", FALSE, TRUE)
  /\ UNCHANGED <<chartVars, timerSet, paused, selectedSymbol, symbolList,
                 smaPeriodValue, fetches, full, nAccepted>>
  /\ UNCHANGED <<serverVars, auxVars>>

\* ws.onclose (lines 171-174): the socket closed, or the attempt failed.
\* (OnCloseNoRetry is the faulty variant without the setTimeout.)
OnCloseNoRetry ==
  /\ wsState \in {"CONNECTING", "OPEN"}
  /\ wsState' = "CLOSED"
  /\ timerSet' = timerSet
  /\ outbox' = << >>
  /\ clientOp' = ClientOp("close", FALSE, TRUE)
  /\ UNCHANGED <<chartVars, paused, selectedSymbol, symbolList,
                 smaPeriodValue, fetches, full, nAccepted>>
  /\ UNCHANGED <<serverVars, auxVars>>

OnClose ==
  /\ wsState \in {"CONNECTING", "OPEN"}
  /\ wsState' = "CLOSED"
  /\ timerSet' = TRUE
  /\ outbox' = << >>
  /\ clientOp' = ClientOp("close", FALSE, TRUE)
  /\ UNCHANGED <<chartVars, paused, selectedSymbol, symbolList,
                 smaPeriodValue, fetches, full, nAccepted>>
  /\ UNCHANGED <<serverVars, auxVars>>

\* The 1000 ms timer of line 173 fires: connectWS (lines 146-149).
ReconnectTimer ==
  /\ timerSet
  /\ timerSet' = FALSE
  /\ wsState' = "CONNECTING"
  /\ outbox' = << >>
  /\ clientOp' = ClientOp("connectWS", FALSE, TRUE)
  /\ UNCHANGED <<chartVars, paused, selectedSymbol, symbolList,
                 smaPeriodValue, fetches, full, nAccepted>>
  /\ UNCHANGED <<serverVars, auxVars>>

(***************************************************************************)
(* computeSMA applied to an input of its own.                              *)
(***************************************************************************)
SmaPrices == {100, 101, 250}
SmaInputs ==
  {[values |-> v, period |-> p] :
     v \in UNION {[1..n -> SmaPrices] : n \in 0..MaxLen}, p \in 2..MaxPeriod}

ApplySMA ==
  /\ ~smaOut.done
  /\ smaOut' = [done |-> TRUE, res |-> computeSMA(smaIn.values, smaIn.period)]
  /\ UNCHANGED smaIn
  /\ UNCHANGED <<serverVars, clientVars, walk, wireVars, windowVars>>

(***************************************************************************)
(* The price step of tick (lines 43-48) applied to a price of its own: the *)
(* prices next to the floor of one cent, the prices where the rounding     *)
(* meets a half, and prices around the seeds; Math.random() is any quarter.*)
(***************************************************************************)
WalkStarts == (1..60) \cup {99, 100, 101, 149, 150, 151, 15000, 29970, 30000}
WalkDraws == 0..3

WalkStep ==
  /\ walk.n < MaxWalk
  /\ walk.price > 0
  /\ \E k \in WalkDraws :
       walk' = [prev |-> walk.price, price |-> NextPrice(walk.price, k),
                n |-> walk.n + 1]
  /\ UNCHANGED <<serverVars, clientVars, smaVars, wireVars, windowVars>>

(***************************************************************************)
(* Initial states and specifications.                                      *)
(***************************************************************************)
InitServer ==
  /\ state = << >>
  /\ clock = StartTime
  /\ clients = << >>
  /\ readyState = [c \in Conns |-> "CLOSED"]
  /\ sendLog = << >>
  /\ running = TRUE
  /\ lastOp = [op |-> "init", conn |-> "-"]
  /\ nTicks = 0
  /\ appended = << >>

\* After createChart() and connectWS() (lines 230-231).  The period input
\* starts empty, which the code reads as 20; PeriodChange reaches the others.
InitClient ==
  /\ wsState = "CONNECTING"
  /\ timerSet = FALSE
  /\ paused = FALSE
  /\ selectedSymbol = << >>
  /\ symbolList = << >>
  /\ smaPeriodValue = ""
  /\ labels = << >>
  /\ priceData = << >>
  /\ smaData = << >>
  /\ currentPrice = NoText
  /\ trend = ""
  /\ outbox = << >>
  /\ fetches = {}
  /\ clientOp = ClientOp("init", FALSE, FALSE)
  /\ full = << >>
  /\ nAccepted = 0

InitSMAIdle ==
  /\ smaIn = [values |-> << >>, period |-> 2]
  /\ smaOut = [done |-> TRUE, res |-> << >>]

\* No price step on its own; an empty wire; an empty window, nothing selected.
InitWalkIdle == walk = [prev |-> 0, price |-> 0, n |-> 0]
InitWire == wireDown = << >> /\ wireUp = << >>
InitWindow == winSyms = << >> /\ awaiting = TRUE

Init ==
  InitServer /\ InitClient /\ InitSMAIdle /\ InitWalkIdle /\ InitWire /\ InitWindow

\* The series under every outcome of the random walk and of the clock.
InitHistory == InitHistoryWith(RandomDraws, MaxSeedDrift)
Tick == TickWith(RandomDraws, ClockSteps)
NextStore == InitHistory \/ Tick
SpecStore == Init /\ [][NextStore]_vars

\* The hub, with the walk fixed to its lowest draw and an exact clock.
InitHistoryHub == InitHistoryWith({0}, 0)
TickHub == TickWith({0}, {1000})
Connect == \E ws \in Conns : Connection(ws)
Receive == \E ws \in Conns : Message(ws)
Closing == \E ws \in Conns : CloseStart(ws)
Closed == \E ws \in Conns : CloseEnd(ws)
NextHub == InitHistoryHub \/ TickHub \/ Connect \/ Receive \/ Closing \/ Closed
Spec == Init /\ [][NextHub]_vars

\* The client's chart handlers on a connection that opens and stays open.
ClientReceive == \E msg \in ServerMessages : OnMessage(msg)
ClientSelect == \E sym \in Universe : SelectSymbol(sym)
ClientPeriod == \E value \in PeriodInputs : PeriodChange(value)
NextClient ==
  ClientReceive \/ ClientSelect \/ PauseClick \/ ClientPeriod \/ WsOpen
SpecClient == Init /\ [][NextClient]_vars

\* The client's connection: closes, the retry timer, the REST fallback; the
\* server sends everything but ticks.  The browser fires a pending timer,
\* hence the fairness.
ClientReceiveQuiet ==
  \E msg \in {m \in ServerMessages : m.type # "tick"} : OnMessage(msg)
ClientFetched == \E sym \in Universe : FetchResponse(sym)
ClientFetchFailed == \E sym \in Universe : FetchFail(sym)
NextReconnect ==
  \/ ClientReceiveQuiet \/ ClientSelect \/ ClientFetched \/ ClientFetchFailed
  \/ PauseClick \/ ClientPeriod \/ WsOpen \/ OnClose \/ ReconnectTimer
SpecReconnect ==
  Init /\ [][NextReconnect]_vars /\ WF_vars(ReconnectTimer)

\* The client with every way its window is written: selections, pause and
\* resume, histories and ticks, closes and reconnects, the REST fallback.
\* winSyms records for which symbol each point of the window was sent, and
\* awaiting whether a history for the last selection is still to arrive.
WindowMessages ==
  {SymbolsMessage}
  \cup {[type |-> "history", symbol |-> sym, history |-> h] :
          sym \in Universe,
          h \in {g \in Histories : Len(g) = maxPoints /\ g[1] = g[maxPoints]}}
  \cup {[type |-> "tick", payload |-> pl] :
          pl \in {q \in Payloads : Len(q) = Len(symbols) /\ q[1].t = q[2].t + 1000}}
WindowReceive ==
  \E msg \in WindowMessages :
    /\ OnMessageBody(msg)
    /\ winSyms' =
         IF clientOp'.op = "history" /\ clientOp'.ran
         THEN [i \in 1..Len(labels') |-> msg.symbol]
         ELSE IF clientOp'.op = "tick" /\ clientOp'.ran
         THEN LastN(Append(winSyms, msg.payload[FindQuote(msg.payload)].symbol),
                    Len(labels'))
         ELSE winSyms
    /\ awaiting' =
         IF selectedSymbol' # selectedSymbol THEN TRUE
         ELSE IF msg.type = "history" /\ msg.symbol = selectedSymbol THEN FALSE
         ELSE awaiting
    /\ UNCHANGED <<serverVars, smaVars, walk, wireVars>>
WindowSelect ==
  \E sym \in Universe :
    /\ SelectSymbolBody(sym)
    /\ awaiting' = TRUE
    /\ UNCHANGED <<serverVars, smaVars, walk, wireVars, winSyms>>
WindowFetched ==
  \E sym \in Universe :
    /\ FetchResponseBody(sym)
    /\ winSyms' = [i \in 1..Len(labels') |-> sym]
    /\ awaiting' = IF sym = selectedSymbol THEN FALSE ELSE awaiting
    /\ UNCHANGED <<serverVars, smaVars, walk, wireVars>>
NextWindow ==
  \/ WindowReceive \/ WindowSelect \/ WindowFetched \/ ClientFetchFailed
  \/ PauseClick \/ WsOpen \/ OnClose \/ ReconnectTimer
SpecWindow == Init /\ [][NextWindow]_vars

\* The server and one client on one connection that opens and stays open,
\* with the client never paused.  A WebSocket delivers the messages of each
\* direction in the order they were sent; every send succeeds.
Peer == "c1"
\* JSON.parse of the subscribe message the client stringified (line 82).
Parsed(m) == [json |-> "object", type |-> m.type, symbol |-> StringValue(m.symbol)]
Sent(log) == [i \in DOMAIN log |-> log[i].msg]
AllSent(log) == \A i \in DOMAIN log : log[i].to = Peer /\ ~log[i].threw

SystemTick ==
  /\ TickWithBody({0}, {1000})
  /\ AllSent(sendLog')
  /\ wireDown' = wireDown \o Sent(sendLog')
  /\ UNCHANGED <<clientVars, smaVars, walk, wireUp, windowVars>>
SystemConnect ==
  /\ wsState = "CONNECTING"
  /\ ConnectionBody(Peer)
  /\ wireDown' = wireDown \o Sent(sendLog')
  /\ UNCHANGED <<clientVars, smaVars, walk, wireUp, windowVars>>
SystemOpen == readyState[Peer] = "OPEN" /\ WsOpen
\* The client handles the next message of the server.
SystemDeliver ==
  /\ wireDown # << >>
  /\ OnMessageBody(Head(wireDown))
  /\ wireDown' = Tail(wireDown)
  /\ wireUp' = wireUp \o outbox'
  /\ awaiting' =
       IF selectedSymbol' # selectedSymbol THEN TRUE
       ELSE IF clientOp'.op = "history" /\ clientOp'.ran THEN FALSE
       ELSE awaiting
  /\ UNCHANGED <<serverVars, smaVars, walk, winSyms>>
SystemSelect ==
  \E sym \in Universe :
    /\ wsState = "OPEN"
    /\ Len(wireUp) + Len(wireDown) < MaxWire
    /\ SelectSymbolBody(sym)
    /\ wireUp' = wireUp \o outbox'
    /\ awaiting' = TRUE
    /\ UNCHANGED <<serverVars, smaVars, walk, wireDown, winSyms>>
\* The server handles the next message of the client.
SystemHandle ==
  /\ wireUp # << >>
  /\ MessageBody(Peer, Parsed(Head(wireUp)), FALSE)
  /\ wireUp' = Tail(wireUp)
  /\ wireDown' = wireDown \o Sent(sendLog')
  /\ UNCHANGED <<clientVars, smaVars, walk, windowVars>>
NextSystem ==
  \/ InitHistoryHub \/ SystemTick \/ SystemConnect \/ SystemOpen
  \/ SystemDeliver \/ SystemSelect \/ SystemHandle
SpecSystem == Init /\ [][NextSystem]_vars

\* computeSMA over every bounded input.
InitSMA ==
  /\ InitServer
  /\ InitClient
  /\ smaIn \in SmaInputs
  /\ smaOut = [done |-> FALSE, res |-> << >>]
  /\ InitWalkIdle
  /\ InitWire
  /\ InitWindow
SpecSMA == InitSMA /\ [][ApplySMA]_vars

\* The price step from every starting price of WalkStarts.
InitWalk ==
  /\ InitServer
  /\ InitClient
  /\ InitSMAIdle
  /\ walk \in {[prev |-> p, price |-> p, n |-> 0] : p \in WalkStarts}
  /\ InitWire
  /\ InitWindow
SpecWalk == InitWalk /\ [][WalkStep]_vars

(***************************************************************************)
(* Properties of the server.                                               *)
(***************************************************************************)
ClientSet == {clients[i] : i \in DOMAIN clients}
SentTo(log, c) == {i \in DOMAIN log : log[i].to = c}

\* Two strings that differ at most in the case of their letters.
CasePairs == {<<"a", "A">>, <<"p", "P">>, <<"l", "L">>, <<"m", "M">>,
              <<"s", "S">>, <<"f", "F">>, <<"t", "T">>, <<"z", "Z">>}
SameIgnoringCase(a, b) ==
  /\ Len(a) = Len(b)
  /\ \A i \in DOMAIN a :
       a[i] = b[i] \/ <<a[i], b[i]>> \in CasePairs \/ <<b[i], a[i]>> \in CasePairs
IsSubscribe(msg) ==
  msg.json = "object" /\ msg.type = "subscribe" /\ msg.symbol.typeof = "string"
KnownSymbol(msg) == \E sym \in Universe : SameIgnoringCase(msg.symbol.chars, sym)

\* C1: a firing of tick() calls send with the tick message exactly once on
\* every connection that is OPEN and on no other, whichever sends throw, and
\* no exception escapes the timer callback (later ticks still fire).
C1_TickReachesEveryOpenConnection ==
  [][lastOp'.op = "tick" =>
       /\ running'
       /\ \A c \in Conns :
            Cardinality(SentTo(sendLog', c))
              = (IF c \in ClientSet /\ readyState[c] = "OPEN" THEN 1 ELSE 0)
       /\ \A i \in DOMAIN sendLog' :
            sendLog'[i].msg = TickMessage(state', clock')]_vars

C1_Witness ==
  /\ lastOp.op = "tick"
  /\ Len(sendLog) = 2
  /\ sendLog[1].threw
  /\ ~sendLog[2].threw
  /\ \E c \in ClientSet : readyState[c] = "CLOSING"

\* C2: a subscribe whose symbol is in the Universe up to case is answered
\* with exactly one send, on that connection, of a history message that
\* carries the canonical symbol and the series the store holds for it.
C2_SubscribeSendsHistory ==
  [][(lastOp'.op = "message" /\ IsSubscribe(lastOp'.msg) /\ KnownSymbol(lastOp'.msg)) =>
       /\ Len(sendLog') = 1
       /\ sendLog'[1].to = lastOp'.conn
       /\ sendLog'[1].msg.type = "history"
       /\ sendLog'[1].msg.symbol \in Universe
       /\ SameIgnoringCase(lastOp'.msg.symbol.chars, sendLog'[1].msg.symbol)
       /\ sendLog'[1].msg.history = state[sendLog'[1].msg.symbol]]_vars

C2_Witness ==
  /\ lastOp.op = "message"
  /\ lastOp.msg.type = "subscribe"
  /\ lastOp.msg.symbol = StringValue(<<"M", "s", "f", "t">>)
  /\ Len(sendLog) = 1
  /\ sendLog[1].msg.type = "history"
  /\ sendLog[1].msg.symbol = MSFT
  /\ Len(sendLog[1].msg.history) = MAX_LENGTH
  /\ \E c \in Conns \ {lastOp.conn} : readyState[c] = "OPEN"

\* C3: a subscribe for a symbol outside the Universe is answered with one
\* error message and no history; the connection stays open and the series,
\* the connections and everything else the server holds are unchanged.
C3_UnknownSymbolGetsError ==
  [][(lastOp'.op = "message" /\ IsSubscribe(lastOp'.msg) /\ ~KnownSymbol(lastOp'.msg)) =>
       /\ Len(sendLog') = 1
       /\ sendLog'[1].to = lastOp'.conn
       /\ sendLog'[1].msg = ErrorMessage
       /\ readyState'[lastOp'.conn] = "OPEN"
       /\ UNCHANGED <<state, clock, clients, readyState, running, nTicks, appended>>]_vars

C3_Witness ==
  /\ lastOp.op = "message"
  /\ lastOp.msg.type = "subscribe"
  /\ lastOp.msg.symbol = StringValue(<<"Z", "Z", "Z", "Z">>)
  /\ Len(sendLog) = 1
  /\ sendLog[1].msg.type = "error"
  /\ readyState[lastOp.conn] = "OPEN"
  /\ nTicks > 0

\* C4: every series has at most MAX_LENGTH samples and is exactly the most
\* recent min(MAX_LENGTH, number pushed) samples pushed, in push order.
C4_SeriesIsBoundedSuffix ==
  \A sym \in DOMAIN state :
    LET all == appended[sym]
        kept == Min(MAX_LENGTH, Len(all))
    IN /\ Len(state[sym]) <= MAX_LENGTH
       /\ state[sym] = SubSeq(all, Len(all) - kept + 1, Len(all))

C4_Witness ==
  /\ DOMAIN state = Universe
  /\ \A sym \in Universe :
       /\ Len(appended[sym]) > MAX_LENGTH
       /\ Len(state[sym]) = MAX_LENGTH

\* C9: a message that does not parse, or is no subscribe with a string
\* symbol, causes no send and changes nothing the server holds; the
\* connection stays open and the server keeps running.
C9_MalformedIsDropped ==
  [][(lastOp'.op = "message" /\ ~IsSubscribe(lastOp'.msg)) =>
       /\ sendLog' = << >>
       /\ running'
       /\ readyState'[lastOp'.conn] = "OPEN"
       /\ lastOp'.conn \in {clients'[i] : i \in DOMAIN clients'}
       /\ UNCHANGED <<state, clock, clients, readyState, running, nTicks, appended>>]_vars

C9_Witness ==
  /\ lastOp.op = "message"
  /\ lastOp.msg.json = "invalid"
  /\ sendLog = << >>
  /\ running
  /\ readyState[lastOp.conn] = "OPEN"
  /\ nTicks < MaxTicks

(***************************************************************************)
(* Properties of the client.                                               *)
(***************************************************************************)
FullPrices == [i \in DOMAIN full |-> full[i].price]
FullLabels == [i \in DOMAIN full |-> fmtTime(full[i].t)]

\* C5: after an accepted tick the last moving-average value of the chart is
\* the last value of computeSMA over the whole price sequence (the rendered
\* history followed by every tick accepted since) for the configured period.
C5_LastAverageEqualsFullRecompute ==
  (clientOp.op = "tick" /\ clientOp.ran) =>
     /\ Len(smaData) > 0
     /\ Y(smaData[Len(smaData)])
          = computeSMA(FullPrices, PeriodOf(smaPeriodValue))[Len(full)]

\* C7: the window never holds more than maxPoints points, and once more
\* than maxPoints ticks were accepted it holds exactly maxPoints: the most
\* recent points accepted, in arrival order.
C7_WindowIsCappedSuffix ==
  /\ Len(labels) <= maxPoints
  /\ Len(priceData) <= maxPoints
  /\ Len(smaData) <= maxPoints
  /\ nAccepted > maxPoints =>
       /\ Len(labels) = maxPoints
       /\ labels = LastN(FullLabels, maxPoints)
       /\ Prices(priceData) = LastN(FullPrices, maxPoints)

C7_Witness ==
  /\ nAccepted > maxPoints
  /\ clientOp.op = "tick"
  /\ clientOp.ran
  /\ Len(full) > Len(labels)

\* The window gains the point of quote q at its end (and is trimmed).
AppendsOne(q) ==
  /\ labels' = LastN(Append(labels, fmtTime(q.t)), maxPoints)
  /\ Prices(priceData') = LastN(Append(Prices(priceData), q.price), maxPoints)
  /\ Len(smaData') = Len(priceData')
  /\ currentPrice' = q.price

\* C8 as stated: a tick batch without a quote of the selected symbol leaves
\* the chart, the price and the trend as they were; a batch with one appends
\* exactly one point, that quote.
C8_TickBatchEffect ==
  [][clientOp'.op = "tick" =>
       IF ~clientOp'.hit THEN UNCHANGED chartVars
       ELSE AppendsOne(clientOp'.quote)]_vars

\* C8 as the code has it: the same, for a client that is not paused; a
\* paused client drops every batch.
C8_TickBatchEffectUnlessPaused ==
  [][clientOp'.op = "tick" =>
       IF ~clientOp'.hit \/ paused THEN UNCHANGED chartVars
       ELSE AppendsOne(clientOp'.quote)]_vars

C8_Witness ==
  /\ clientOp.op = "tick"
  /\ clientOp.hit
  /\ clientOp.ran
  /\ clientOp.quote.symbol = MSFT
  /\ Len(labels) = maxPoints
  /\ Y(priceData[Len(priceData)]) = clientOp.quote.price

\* C10: whenever the client's socket is closed, a new connection attempt
\* follows; nothing counts or limits the attempts.
C10_CloseLeadsToReconnect == (wsState = "CLOSED") ~> (wsState = "CONNECTING")

\* A close that follows a reconnect: the REST fallback is only ever used
\* on a socket that connectWS reopened.
C10_Witness ==
  /\ wsState = "CLOSED"
  /\ timerSet
  /\ fetches # {}

(***************************************************************************)
(* Properties of computeSMA.                                               *)
(***************************************************************************)
RECURSIVE SumRange(_, _, _)
SumRange(values, lo, hi) ==
  IF lo > hi THEN 0 ELSE values[hi] + SumRange(values, lo, hi - 1)
\* The sum of the trailing min(k, p) prices that end at the k-th.
TrailingSum(values, k, p) == SumRange(values, k - Min(k, p) + 1, k)
Abs(x) == IF x < 0 THEN -x ELSE x

\* C6 as stated: the k-th value is the arithmetic mean of the trailing
\* min(k, p) prices: value / 10000 = sum / (100 * n).
C6_ExactMean ==
  smaOut.done =>
    /\ Len(smaOut.res) = Len(smaIn.values)
    /\ \A k \in DOMAIN smaOut.res :
         smaOut.res[k] * Min(k, smaIn.period)
           = 100 * TrailingSum(smaIn.values, k, smaIn.period)

\* C6 as the code has it: the k-th value is that mean rounded to 4
\* decimals (it is within half of 1/10000 of the mean), and the first value
\* is the first price.
C6_RoundedMean ==
  smaOut.done =>
    /\ Len(smaOut.res) = Len(smaIn.values)
    /\ \A k \in DOMAIN smaOut.res :
         2 * Abs(smaOut.res[k] * Min(k, smaIn.period)
                 - 100 * TrailingSum(smaIn.values, k, smaIn.period))
           <= Min(k, smaIn.period)
    /\ Len(smaOut.res) > 0 => smaOut.res[1] = 100 * smaIn.values[1]

C6_Witness ==
  /\ smaOut.done
  /\ Len(smaIn.values) = smaIn.period + 1
  /\ \E k \in DOMAIN smaOut.res :
       /\ k > smaIn.period
       /\ smaOut.res[k] * smaIn.period
            # 100 * TrailingSum(smaIn.values, k, smaIn.period)

(***************************************************************************)
(* The series: timestamps, the batch of a tick, seeding, the price step.   *)
(***************************************************************************)
\* C11: in every series the timestamps are non-decreasing from one sample
\* to the next, over the seeded history and every sample a tick appended
\* (the clock of the model, as Date.now() normally does, never goes back).
C11_TimestampsNonDecreasing ==
  \A sym \in DOMAIN state :
    /\ \A i \in 1..(Len(state[sym]) - 1) :
         state[sym][i].t <= state[sym][i + 1].t
    /\ \A i \in 1..(Len(appended[sym]) - 1) :
         appended[sym][i].t <= appended[sym][i + 1].t

\* Seeded while the clock advanced, then ticked until samples were evicted.
C11_Witness ==
  /\ DOMAIN state # {}
  /\ nTicks = MaxTicks
  /\ \E sym \in DOMAIN state :
       /\ Len(appended[sym]) > MAX_LENGTH
       /\ appended[sym][2].t - appended[sym][1].t = 1000 + MaxSeedDrift
       /\ state[sym][Len(state[sym])].t - state[sym][1].t > 3000

\* C12: a tick appends exactly one new sample to every symbol's series, all
\* of them with the same timestamp, and the batch it broadcasts holds exactly
\* one entry per symbol of the Universe, whose t and price are those of the
\* sample just appended to that symbol's series.
NewSample(sym) == state'[sym][Len(state'[sym])]
C12_TickAppendsAndReports ==
  [][lastOp'.op = "tick" =>
       LET payload == lastOp'.msg.payload
       IN /\ \A sym \in Universe :
               /\ appended'[sym] = Append(appended[sym], NewSample(sym))
               /\ SubSeq(state'[sym], 1, Len(state'[sym]) - 1)
                    = LastN(state[sym], Len(state'[sym]) - 1)
               /\ Len(state'[sym]) \in {Len(state[sym]), Len(state[sym]) + 1}
          /\ \A a, b \in Universe : NewSample(a).t = NewSample(b).t
          /\ lastOp'.msg.type = "tick"
          /\ Len(payload) = Cardinality(Universe)
          /\ \A sym \in Universe :
               \E j \in DOMAIN payload :
                 /\ payload[j].symbol = sym
                 /\ payload[j].t = NewSample(sym).t
                 /\ payload[j].price = NewSample(sym).price
                 /\ \A k \in DOMAIN payload : payload[k].symbol = sym => k = j
  ]_vars

\* A tick past the first eviction that moved the price of every symbol, the
\* two symbols by different draws.
C12_Witness ==
  /\ lastOp.op = "tick"
  /\ \A sym \in Universe :
       /\ Len(appended[sym]) > MAX_LENGTH
       /\ state[sym][Len(state[sym])].price # state[sym][Len(state[sym]) - 1].price
  /\ state[AAPL][MAX_LENGTH].price > state[AAPL][MAX_LENGTH - 1].price
  /\ state[MSFT][MAX_LENGTH].price < state[MSFT][MAX_LENGTH - 1].price

(***************************************************************************)
(* The client: the trend, the three sequences of the chart, the period.    *)
(***************************************************************************)
\* C13: right after a history was rendered (from a history message or from
\* the REST fallback) and right after a tick was accepted, the trend shown
\* is UP exactly when the most recent price of the window is at least the
\* last moving-average value of the window, and DOWN otherwise; without a
\* moving-average value the price is compared with itself (so it is UP).
C13_TrendFollowsLastAverage ==
  (clientOp.op \in {"history", "fetch", "tick"} /\ clientOp.ran) =>
    /\ Len(priceData) > 0
    /\ LET last == Y(priceData[Len(priceData)])
           lastSMA == IF Len(smaData) = 0 THEN 100 * last
                      ELSE Y(smaData[Len(smaData)])
       IN /\ currentPrice = last
          /\ trend \in {"UP", "DOWN"}
          /\ trend = "UP" <=> 100 * last >= lastSMA

\* An accepted tick below the average, in a full window.
C13_Witness ==
  /\ clientOp.op = "tick"
  /\ clientOp.ran
  /\ Len(priceData) = maxPoints
  /\ trend = "DOWN"
  /\ 100 * Y(priceData[Len(priceData)]) < Y(smaData[Len(smaData)])

\* C14: in every reachable state of the client (after a history load, a
\* tick, a period change) the moving-average sequence, the price sequence
\* and the label sequence of the chart have the same length.
C14_SameLengths ==
  /\ Len(smaData) = Len(priceData)
  /\ Len(labels) = Len(priceData)

\* The period was changed on a full window that ticks have slid.
C14_Witness ==
  /\ clientOp.op = "period"
  /\ nAccepted >= 2
  /\ Len(full) > maxPoints
  /\ Len(smaData) = maxPoints
  /\ Len(labels) = maxPoints

\* C15: after initHistory and before the first tick every series holds
\* exactly HISTORY_POINTS samples and every two consecutive samples are
\* exactly 1000 ms apart, whatever the clock does while the loop runs.
C15_SeedSpacingExact ==
  (DOMAIN state # {} /\ nTicks = 0) =>
    \A sym \in Universe :
      /\ Len(state[sym]) = HISTORY_POINTS
      /\ \A i \in 1..(Len(state[sym]) - 1) :
           state[sym][i + 1].t - state[sym][i].t = 1000

\* What the code does keep: the count, and a spacing of 1000 ms plus
\* whatever the clock gained between the two calls of Date.now().
C15_SeedCountAndDrift ==
  (DOMAIN state # {} /\ nTicks = 0) =>
    \A sym \in Universe :
      /\ Len(state[sym]) = HISTORY_POINTS
      /\ \A i \in 1..(Len(state[sym]) - 1) :
           state[sym][i + 1].t - state[sym][i].t \in 1000..(1000 + MaxSeedDrift)

\* C16: every price of every series is at least the floor of one cent, so
\* never zero or negative; and the price a tick appends differs from the
\* price before it by at most 1% of that price, within the rounding to two
\* decimals (half a cent).  Stated on the series, for the samples ticks
\* appended after the seeded ones, and on the price step taken alone.
C16_FloorAndBoundedStep ==
  /\ \A sym \in DOMAIN state :
       /\ \A i \in DOMAIN state[sym] : state[sym][i].price >= 1
       /\ \A i \in DOMAIN appended[sym] : appended[sym][i].price >= 1
       /\ \A i \in (HISTORY_POINTS + 1)..Len(appended[sym]) :
            100 * Abs(appended[sym][i].price - appended[sym][i - 1].price)
              <= appended[sym][i - 1].price + 50
  /\ walk.n > 0 =>
       /\ walk.price >= 1
       /\ 100 * Abs(walk.price - walk.prev) <= walk.prev + 50

\* A price on the floor, where the draws below one half would take the
\* unrounded price under one cent, stepped MaxWalk times.
C16_Witness ==
  /\ walk.n = MaxWalk
  /\ walk.prev = 1
  /\ walk.price = 1

\* The same on the series: a tick took the full 1% off a seeded price.
C16_SeriesWitness ==
  /\ nTicks > 0
  /\ \E sym \in DOMAIN state :
       LET n == Len(appended[sym])
       IN 100 * (appended[sym][n - 1].price - appended[sym][n].price)
            >= appended[sym][n - 1].price - 50

\* C17: a change of the period replaces the moving-average sequence with
\* computeSMA of the prices the window holds, for the new period; it leaves
\* the prices and the labels of the window as they are and sends neither a
\* subscribe message nor a history request.
C17_PeriodChangeRecomputesWindow ==
  [][clientOp'.op = "period" =>
       /\ Prices(smaData')
            = computeSMA(Prices(priceData), PeriodOf(smaPeriodValue'))
       /\ priceData' = priceData
       /\ labels' = labels
       /\ outbox' = << >>
       /\ fetches' = fetches
  ]_vars

\* The period went to 2 on a full window whose average under the old
\* period differs from the one now shown.
C17_Witness ==
  /\ clientOp.op = "period"
  /\ smaPeriodValue = "1"
  /\ Len(priceData) = maxPoints
  /\ Prices(smaData) # computeSMA(Prices(priceData), 3)
  /\ Prices(smaData) # computeSMA(Prices(priceData), 20)

\* C20: with the period unchanged, an accepted tick does not change the
\* moving-average value of any point that stays in the window: the values
\* of the evicted points go, the value of the new point is added, and every
\* other value is the one the point had before the tick.
C20_RetainedAveragesUnchanged ==
  [][(clientOp'.op = "tick" /\ clientOp'.ran
        /\ smaPeriodValue' = smaPeriodValue) =>
       LET shifts == Len(smaData) + 1 - Len(smaData')
       IN /\ shifts >= 0
          /\ \A i \in 1..(Len(smaData') - 1) :
               Y(smaData'[i]) = Y(smaData[i + shifts])
  ]_vars

(***************************************************************************)
(* The window and the selected symbol.                                     *)
(***************************************************************************)
\* C19: except between a selection and the arrival of the history for that
\* selection, every point of the window belongs to the selected symbol, under
\* every interleaving of selections, pause and resume, ticks and histories,
\* reconnects and REST fallback responses.
C19_WindowBelongsToSelected ==
  ~awaiting => \A i \in DOMAIN winSyms : winSyms[i] = selectedSymbol

\* C19, in particular: the window is never replaced by the history of a
\* symbol other than the selected one.
C19_NeverReplacedByOtherHistory ==
  [][(clientOp'.op \in {"history", "fetch"} /\ clientOp'.ran) =>
       \A i \in DOMAIN winSyms' : winSyms'[i] = selectedSymbol'
  ]_vars

\* C18: on one connection that stays open, the client never paused: once the
\* client has rendered a history for its selected symbol s that it received
\* after its last selection, then whenever it has handled every message the
\* server sent so far (and s is still selected) the prices of the window are
\* the most recent min(maxPoints, length) prices of the server's series for
\* s, none missing and none twice, however tick firings and the handling of
\* subscribe messages interleave.
SeriesPrices(sym) == [i \in DOMAIN state[sym] |-> state[sym][i].price]
C18_WindowFollowsSeries ==
  (~awaiting /\ wireDown = << >>) =>
    /\ selectedSymbol \in Universe
    /\ Prices(priceData) = LastN(SeriesPrices(selectedSymbol), maxPoints)
    /\ Len(priceData) = Min(maxPoints, Len(state[selectedSymbol]))

\* The client re-selected; ticks had fired before the server handled the
\* subscribe, so the history held them; further ticks followed the history
\* (the window ends with two of them after a point of the history); the
\* series has evicted samples.
C18_Witness ==
  /\ ~awaiting
  /\ wireDown = << >>
  /\ selectedSymbol = MSFT
  /\ nTicks = MaxTicks
  /\ clientOp.op = "tick"
  /\ Len(appended[MSFT]) > MAX_LENGTH
  /\ Len(full) > HISTORY_POINTS + 2
  /\ Len(priceData) = maxPoints
  /\ priceData[maxPoints - 2].shape = "object"
  /\ priceData[maxPoints - 1].shape = "number"

====
